---- MODULE Spec2Model ----
(***************************************************************************)
(* TinyChart utility scripts.                                              *)
(*                                                                         *)
(*   inference.py            the resumable batch-inference Driver          *)
(*   convert_preds_format.py the run-directory Builder                     *)
(*                                                                         *)
(* A file is a sequence of tokens.  The structural characters of JSON, the *)
(* newline and a `"key": value` pair are tokens; whitespace other than the *)
(* newline is not represented.  json.load / json.loads are a recursive     *)
(* descent parser over tokens, json.dump(indent=2) / json.dumps are the    *)
(* printers, readlines splits at the newline token.                        *)
(***************************************************************************)
EXTENDS Integers, Sequences, FiniteSets, TLC

\* ---- bounds ----------------------------------------------------------
MaxImages == 3
MaxRuns == 2
MaxRows == 1
MaxCalls == 2
MaxTime == 1
NumRunNames == 1

\* ---- tokens ----------------------------------------------------------
LB == [tok |-> "["]
RB == [tok |-> "]"]
LC == [tok |-> "{"]
RC == [tok |-> "}"]
CM == [tok |-> ","]
NL == [tok |-> "\n"]
GARBAGE == [tok |-> "garbage"]
KV(key, val) == [tok |-> "kv", k |-> key, v |-> val]

\* ---- sequence helpers ------------------------------------------------
RECURSIVE Concat(_)
Concat(ss) == IF ss = <<>> THEN <<>> ELSE Head(ss) \o Concat(Tail(ss))

RECURSIVE Intersperse(_, _)
Intersperse(ss, sep) ==
  IF Len(ss) <= 1 THEN Concat(ss)
  ELSE Head(ss) \o sep \o Intersperse(Tail(ss), sep)

Range(s) == {s[i] : i \in DOMAIN s}

\* sorted(): the ascending enumeration of a set of image names
RECURSIVE SortedSeq(_)
SortedSeq(S) ==
  IF S = {} THEN <<>>
  ELSE LET m == CHOOSE x \in S : \A y \in S : x <= y
       IN <<m>> \o SortedSeq(S \ {m})

\* ---- JSON values -----------------------------------------------------
\* an object is an ordered list of key/value pairs, an array a list of values
Obj(fs) == [t |-> "obj", fields |-> fs]
Arr(xs) == [t |-> "arr", items |-> xs]
Fail == [ok |-> FALSE]

HasKey(o, key) == \E i \in DOMAIN o.fields : o.fields[i].k = key
Get(o, key) ==
  o.fields[CHOOSE i \in DOMAIN o.fields :
             /\ o.fields[i].k = key
             /\ \A j \in DOMAIN o.fields : o.fields[j].k = key => j <= i].v

\* str.strip() / whitespace skipping of the decoder: newlines carry no value
StripWS(ts) == SelectSeq(ts, LAMBDA x : x.tok # "\n")

RECURSIVE ParseValue(_, _), ParseMembers(_, _, _), ParseElements(_, _, _)
\* the value starting at ts[i]: [ok, val, next]
ParseValue(ts, i) ==
  IF i > Len(ts) THEN Fail
  ELSE IF ts[i].tok = "{" THEN
    IF i + 1 <= Len(ts) /\ ts[i + 1].tok = "}"
    THEN [ok |-> TRUE, val |-> Obj(<<>>), next |-> i + 2]
    ELSE ParseMembers(ts, i + 1, <<>>)
  ELSE IF ts[i].tok = "[" THEN
    IF i + 1 <= Len(ts) /\ ts[i + 1].tok = "]"
    THEN [ok |-> TRUE, val |-> Arr(<<>>), next |-> i + 2]
    ELSE ParseElements(ts, i + 1, <<>>)
  ELSE Fail

\* `"k": v` pairs separated by commas, up to the closing brace
ParseMembers(ts, i, acc) ==
  IF i + 1 > Len(ts) \/ ts[i].tok # "kv" THEN Fail
  ELSE LET acc2 == Append(acc, [k |-> ts[i].k, v |-> ts[i].v])
       IN IF ts[i + 1].tok = "}"
          THEN [ok |-> TRUE, val |-> Obj(acc2), next |-> i + 2]
          ELSE IF ts[i + 1].tok = ","
          THEN ParseMembers(ts, i + 2, acc2)
          ELSE Fail

\* values separated by commas, up to the closing bracket
ParseElements(ts, i, acc) ==
  LET r == ParseValue(ts, i)
  IN IF ~r.ok \/ r.next > Len(ts) THEN Fail
     ELSE LET acc2 == Append(acc, r.val)
          IN IF ts[r.next].tok = "]"
             THEN [ok |-> TRUE, val |-> Arr(acc2), next |-> r.next + 1]
             ELSE IF ts[r.next].tok = ","
             THEN ParseElements(ts, r.next + 1, acc2)
             ELSE Fail

\* json.load(f) / json.loads(s): one value and nothing after it
json_load(ts) ==
  LET s == StripWS(ts)
      r == ParseValue(s, 1)
  IN IF r.ok /\ r.next = Len(s) + 1 THEN [ok |-> TRUE, val |-> r.val] ELSE Fail

\* json.dumps(obj): one line, no newline inside
RECURSIVE json_dumps(_)
json_dumps(x) ==
  IF x.t = "obj"
  THEN <<LC>> \o Intersperse([i \in DOMAIN x.fields |->
                                <<KV(x.fields[i].k, x.fields[i].v)>>], <<CM>>)
            \o <<RC>>
  ELSE <<LB>> \o Intersperse([i \in DOMAIN x.items |-> json_dumps(x.items[i])],
                             <<CM>>)
            \o <<RB>>

\* json.dump(obj, f, indent=2): one item per line, empty containers on one
\* line, no newline after the closing bracket
RECURSIVE json_dump_indent(_)
json_dump_indent(x) ==
  IF x.t = "obj"
  THEN IF x.fields = <<>> THEN <<LC, RC>>
       ELSE <<LC, NL>>
            \o Intersperse([i \in DOMAIN x.fields |->
                              <<KV(x.fields[i].k, x.fields[i].v)>>], <<CM, NL>>)
            \o <<NL, RC>>
  ELSE IF x.items = <<>> THEN <<LB, RB>>
       ELSE <<LB, NL>>
            \o Intersperse([i \in DOMAIN x.items |->
                              json_dump_indent(x.items[i])], <<CM, NL>>)
            \o <<NL, RB>>

\* f.readlines(): the pieces between newlines; the last piece may be
\* unterminated and is a line only if it is not empty
RECURSIVE readlines(_, _)
readlines(ts, cur) ==
  IF ts = <<>> THEN (IF cur = <<>> THEN <<>> ELSE <<cur>>)
  ELSE IF Head(ts).tok = "\n"
       THEN <<Append(cur, NL)>> \o readlines(Tail(ts), <<>>)
       ELSE readlines(Tail(ts), Append(cur, Head(ts)))

\* ---- Driver state ----------------------------------------------------
VARIABLES
  dirImages,    \* names of the image files in image_dir
  outExists,    \* os.path.exists(output_json)
  disk,         \* content of output_json on disk
  buf,          \* bytes written to out_f and not yet flushed
  pc,           \* position of the Driver process
  image_files,  \* the sorted listing taken at the start of the invocation
  done_images,  \* the done set
  idx,          \* position of the for loop in image_files
  response,     \* answer of the inference call in progress
  calls,        \* images passed to inference_model by this invocation
  failed,       \* those of them whose call raised
  nflushed,     \* records written and flushed by this invocation
  runs,         \* invocations started so far
  startExists,  \* did output_json exist when this invocation started
  startDisk,    \* its content at that moment
  crashAt,      \* where the invocation raised, if it did
  prev          \* how the previous invocation ended

driverVars == <<dirImages, outExists, disk, buf, pc, image_files, done_images,
                idx, response, calls, failed, nflushed, runs, startExists,
                startDisk, crashAt, prev>>

\* ---- Builder state ---------------------------------------------------
VARIABLES
  outRootExists, \* out_root.exists()
  dirs,          \* the run directories under out_root
  files,         \* the files of each run directory, in the order written
  now,           \* the clock, in seconds
  bcalls,        \* Builder invocations so far
  exitStatus,    \* how the last invocation ended
  lastArgs,      \* its arguments
  lastTarget,    \* the run directory name it computed
  pre,           \* out_root as it was when it started
  created        \* the run directories created by the Builder

builderVars == <<outRootExists, dirs, files, now, bcalls, exitStatus,
                 lastArgs, lastTarget, pre, created>>

ImageNames == 1 .. MaxImages
Running == {"loop", "write", "flush", "normalize"}
NoPrev == [end |-> "none", dir |-> {}, existed |-> FALSE, flushed |-> 0]

\* inference_model returns a table, or raises an exception with a message
InferenceOutcomes == {"ok", "raise"}
Answer(p, m) == [prefix |-> p, msg |-> m]

\* lines 29-36: the listing of valid image files, sorted
ListImages(dir) == SortedSeq(dir)

\* lines 39-45: json.load of the existing file; any exception gives []
LoadResults(exists, content) ==
  IF exists
  THEN LET r == json_load(content) IN IF r.ok THEN r.val ELSE Arr(<<>>)
  ELSE Arr(<<>>)

\* line 46: set(r["imagename"] for r in results if "imagename" in r).
\* Iterating a dict yields its keys; `in` on a key is a substring test and
\* indexing a str by a str raises TypeError.  `in` on a list is membership.
LoadDone(results) ==
  IF results.t = "arr"
  THEN [ok |-> TRUE,
        done |-> {Get(results.items[i], "imagename") :
                    i \in {j \in DOMAIN results.items :
                             /\ results.items[j].t = "obj"
                             /\ HasKey(results.items[j], "imagename")}}]
  ELSE IF HasKey(results, "imagename")
       THEN [ok |-> FALSE, done |-> {}]
       ELSE [ok |-> TRUE, done |-> {}]

\* the handler of line 69 without the "Error: " prefix
Response_NoPrefix(outcome) ==
  IF outcome = "ok" THEN Answer("", "table") ELSE Answer("", "boom")

\* lines 57-69: the response, or "Error: " + str(e)
Response(outcome) ==
  IF outcome = "ok" THEN Answer("", "table") ELSE Answer("Error: ", "boom")

\* line 70
Result(img_name, resp) ==
  Obj(<<[k |-> "imagename", v |-> img_name], [k |-> "answer", v |-> resp]>>)

\* the record written without its newline
ResultLine_NoNewline(result) == json_dumps(result)

\* line 72: json.dumps(result) + "\n"
ResultLine(result) == json_dumps(result) \o <<NL>>

\* a flush that leaves the bytes in the buffer
flush_Noop(d, b) == [disk |-> d, buf |-> b]

\* line 73: out_f.flush() moves the buffered bytes to the file
flush(d, b) == [disk |-> d \o b, buf |-> <<>>]

\* lines 77-79: objs = [json.loads(line) for line in lines if line.strip()]
NormalizeObjs(content) ==
  LET lines == SelectSeq(readlines(content, <<>>),
                         LAMBDA l : StripWS(l) # <<>>)
      parsed == [i \in DOMAIN lines |-> json_load(lines[i])]
  IN IF \A i \in DOMAIN parsed : parsed[i].ok
     THEN [ok |-> TRUE, objs |-> [i \in DOMAIN parsed |-> parsed[i].val]]
     ELSE [ok |-> FALSE, objs |-> <<>>]

DriverInit ==
  /\ dirImages \in SUBSET ImageNames
  /\ \/ outExists = FALSE /\ disk = <<>>
     \/ outExists = TRUE /\ disk = <<GARBAGE, NL>>
  /\ buf = <<>>
  /\ pc = "idle"
  /\ image_files = <<>>
  /\ done_images = {}
  /\ idx = 1
  /\ response = Answer("", "")
  /\ calls = <<>>
  /\ failed = {}
  /\ nflushed = 0
  /\ runs = 0
  /\ startExists = FALSE
  /\ startDisk = <<>>
  /\ crashAt = "none"
  /\ prev = NoPrev

\* lines 11-51: list the images, load the done set, open for append
DriverStart ==
  /\ UNCHANGED builderVars
  /\ pc \notin Running
  /\ runs < MaxRuns
  /\ runs' = runs + 1
  /\ prev' = IF runs = 0 THEN NoPrev
             ELSE [end |-> pc, dir |-> Range(image_files),
                   existed |-> startExists, flushed |-> nflushed]
  /\ image_files' = ListImages(dirImages)
  /\ startExists' = outExists
  /\ startDisk' = disk
  /\ calls' = <<>>
  /\ failed' = {}
  /\ nflushed' = 0
  /\ idx' = 1
  /\ buf' = <<>>
  /\ response' = Answer("", "")
  /\ LET ld == LoadDone(LoadResults(outExists, disk))
     IN IF outExists /\ ~ld.ok
        THEN /\ pc' = "crashed"
             /\ crashAt' = "load"
             /\ done_images' = {}
             /\ outExists' = outExists
        ELSE /\ pc' = "loop"
             /\ crashAt' = "none"
             /\ done_images' = (IF outExists THEN ld.done ELSE {})
             /\ outExists' = TRUE
  /\ UNCHANGED <<dirImages, disk>>

\* lines 52-54: an image of the done set is skipped
DriverSkip ==
  /\ UNCHANGED builderVars
  /\ pc = "loop"
  /\ idx <= Len(image_files)
  /\ image_files[idx] \in done_images
  /\ idx' = idx + 1
  /\ UNCHANGED <<dirImages, outExists, disk, buf, pc, image_files, done_images,
                 response, calls, failed, nflushed, runs, startExists,
                 startDisk, crashAt, prev>>

\* lines 55-69: the inference call, which returns or raises
DriverInfer ==
  /\ UNCHANGED builderVars
  /\ pc = "loop"
  /\ idx <= Len(image_files)
  /\ image_files[idx] \notin done_images
  /\ \E outcome \in InferenceOutcomes :
       /\ response' = Response(outcome)
       /\ failed' = IF outcome = "raise" THEN failed \cup {image_files[idx]}
                    ELSE failed
  /\ calls' = Append(calls, image_files[idx])
  /\ pc' = "write"
  /\ UNCHANGED <<dirImages, outExists, disk, buf, image_files, done_images,
                 idx, nflushed, runs, startExists, startDisk, crashAt, prev>>

\* lines 70-72: out_f.write of the record's line
DriverWrite ==
  /\ UNCHANGED builderVars
  /\ pc = "write"
  /\ buf' = buf \o ResultLine(Result(image_files[idx], response))
  /\ pc' = "flush"
  /\ UNCHANGED <<dirImages, outExists, disk, image_files, done_images, idx,
                 response, calls, failed, nflushed, runs, startExists,
                 startDisk, crashAt, prev>>

\* line 73: out_f.flush(), then the next iteration
DriverFlush ==
  /\ UNCHANGED builderVars
  /\ pc = "flush"
  /\ LET f == flush(disk, buf)
     IN /\ disk' = f.disk
        /\ buf' = f.buf
  /\ nflushed' = nflushed + 1
  /\ idx' = idx + 1
  /\ pc' = "loop"
  /\ UNCHANGED <<dirImages, outExists, image_files, done_images, response,
                 calls, failed, runs, startExists, startDisk, crashAt, prev>>

\* end of the with block (line 51): the file is closed, which flushes it
DriverEndLoop ==
  /\ UNCHANGED builderVars
  /\ pc = "loop"
  /\ idx > Len(image_files)
  /\ disk' = disk \o buf
  /\ buf' = <<>>
  /\ pc' = "normalize"
  /\ UNCHANGED <<dirImages, outExists, image_files, done_images, idx, response,
                 calls, failed, nflushed, runs, startExists, startDisk,
                 crashAt, prev>>

\* lines 77-81: re-read the lines, parse each, rewrite as one JSON array
DriverNormalize ==
  /\ UNCHANGED builderVars
  /\ pc = "normalize"
  /\ LET n == NormalizeObjs(disk)
     IN IF n.ok
        THEN /\ disk' = json_dump_indent(Arr(n.objs))
             /\ pc' = "done"
             /\ crashAt' = crashAt
        ELSE /\ disk' = disk
             /\ pc' = "crashed"
             /\ crashAt' = "normalize"
  /\ UNCHANGED <<dirImages, outExists, buf, image_files, done_images, idx,
                 response, calls, failed, nflushed, runs, startExists,
                 startDisk, prev>>

\* the process is killed: what was not flushed is lost
DriverKill ==
  /\ UNCHANGED builderVars
  /\ pc \in Running
  /\ pc' = "killed"
  /\ buf' = <<>>
  /\ UNCHANGED <<dirImages, outExists, disk, image_files, done_images, idx,
                 response, calls, failed, nflushed, runs, startExists,
                 startDisk, crashAt, prev>>

\* between invocations an image file is added to the directory
AddImage ==
  /\ UNCHANGED builderVars
  /\ pc \notin Running
  /\ runs < MaxRuns
  /\ \E i \in ImageNames \ dirImages : dirImages' = dirImages \cup {i}
  /\ UNCHANGED <<outExists, disk, buf, pc, image_files, done_images, idx,
                 response, calls, failed, nflushed, runs, startExists,
                 startDisk, crashAt, prev>>

\* a run directory is named explicitly (--run_name) or after the clock
DirNames == ({"name"} \X (1 .. NumRunNames)) \cup ({"auto"} \X (0 .. MaxTime))
ThreeFiles == <<"metrics.json", "config.yaml", "predictions.json">>

\* a row of the input: is each key missing, a string, or of another type;
\* the rows build_predictions tells apart
Rows == {[imagename |-> "str", answer |-> "str"],
         [imagename |-> "str", answer |-> "other"],
         [imagename |-> "str", answer |-> "missing"],
         [imagename |-> "missing", answer |-> "str"],
         [imagename |-> "other", answer |-> "str"]}
RowSeqs == UNION {[1 .. n -> Rows] : n \in 0 .. MaxRows}

\* --run_name is empty (0) or one of the explicit names; --input_images_dir
\* has `segs` segments between slashes
BuilderArgs == [input_exists : BOOLEAN, rows : RowSeqs,
                run_name : 0 .. NumRunNames, segs : 1 .. 2]
NoArgs == [input_exists |-> FALSE, rows |-> <<>>, run_name |-> 0, segs |-> 2]
Outcome(kind, row) == [kind |-> kind, row |-> row]

\* lines 141-150: args.run_name.strip() or the timestamped name
RunName(run_name, t) ==
  IF run_name # 0 THEN <<"name", run_name>> ELSE <<"auto", t>>

\* mkdir with exist_ok=True
safe_mkdir_ExistOk(existing, p) == [ok |-> TRUE, dirs |-> existing \cup {p}]

\* lines 29-30: p.mkdir(parents=True, exist_ok=False)
safe_mkdir(existing, p) ==
  [ok |-> p \notin existing, dirs |-> existing \cup {p}]

\* line 154: _read_json is not defined anywhere in the module, so the call
\* raises NameError
read_json(rows) == [ok |-> FALSE, err |-> "NameError", rows |-> <<>>]

\* lines 73-98: the first row lacking a key or with a non-string imagename
\* raises ValueError naming its index; otherwise one PredictionOut per row
build_predictions(jsonl_rows) ==
  LET bad == {i \in DOMAIN jsonl_rows :
                \/ jsonl_rows[i].imagename # "str"
                \/ jsonl_rows[i].answer = "missing"}
  IN IF bad # {}
     THEN [ok |-> FALSE,
           row |-> (CHOOSE i \in bad : \A j \in bad : i <= j) - 1,
           out |-> <<>>]
     ELSE [ok |-> TRUE, row |-> -1,
           out |-> [i \in DOMAIN jsonl_rows |->
                      [image |-> "str", answer |-> "str",
                       input_tokens |-> 0, output_tokens |-> 0]]]

\* lines 127-178: main, as a function of the arguments, out_root and the clock
Main(args, root, ds, fl, t) ==
  IF ~args.input_exists
  THEN [result |-> Outcome("FileNotFoundError", -1),
        root |-> root, dirs |-> ds, files |-> fl]
  ELSE IF args.segs < 2
  THEN [result |-> Outcome("IndexError", -1),
        root |-> TRUE, dirs |-> ds, files |-> fl]
  ELSE LET out_dir == RunName(args.run_name, t)
           mk == safe_mkdir(ds, out_dir)
           raw == read_json(args.rows)
           predictions == build_predictions(raw.rows)
       IN IF ~mk.ok
          THEN [result |-> Outcome("FileExistsError", -1),
                root |-> TRUE, dirs |-> ds, files |-> fl]
          ELSE IF ~raw.ok
          THEN [result |-> Outcome(raw.err, -1),
                root |-> TRUE, dirs |-> mk.dirs, files |-> fl]
          ELSE IF ~predictions.ok
          THEN [result |-> Outcome("ValueError", predictions.row),
                root |-> TRUE, dirs |-> mk.dirs, files |-> fl]
          ELSE [result |-> Outcome("ok", -1),
                root |-> TRUE, dirs |-> mk.dirs,
                files |-> [fl EXCEPT ![out_dir] = ThreeFiles]]

BuilderInit ==
  /\ dirs \in SUBSET ({"name"} \X (1 .. NumRunNames))
  /\ files \in [DirNames -> {<<>>, ThreeFiles}]
  /\ \A d \in DirNames \ dirs : files[d] = <<>>
  /\ outRootExists \in BOOLEAN
  /\ dirs # {} => outRootExists
  /\ now = 0
  /\ bcalls = 0
  /\ exitStatus = Outcome("none", -1)
  /\ lastArgs = NoArgs
  /\ lastTarget = RunName(0, 0)
  /\ pre = [root |-> outRootExists, dirs |-> dirs, files |-> files]
  /\ created = {}

\* one invocation of the Builder
BuilderMain ==
  /\ UNCHANGED driverVars
  /\ bcalls < MaxCalls
  /\ \E args \in BuilderArgs :
       LET m == Main(args, outRootExists, dirs, files, now)
       IN /\ exitStatus' = m.result
          /\ outRootExists' = m.root
          /\ dirs' = m.dirs
          /\ files' = m.files
          /\ created' = created \cup (m.dirs \ dirs)
          /\ lastArgs' = args
          /\ lastTarget' = RunName(args.run_name, now)
  /\ pre' = [root |-> outRootExists, dirs |-> dirs, files |-> files]
  /\ bcalls' = bcalls + 1
  /\ now' = now

\* a second passes
Tick ==
  /\ UNCHANGED driverVars
  /\ now < MaxTime
  /\ now' = now + 1
  /\ UNCHANGED <<outRootExists, dirs, files, bcalls, exitStatus, lastArgs,
                 lastTarget, pre, created>>

\* the Builder while the Driver is studied, and the Driver while the Builder is
BuilderQuiet ==
  /\ dirs = {}
  /\ files = [d \in DirNames |-> <<>>]
  /\ outRootExists = FALSE
  /\ now = 0
  /\ bcalls = 0
  /\ exitStatus = Outcome("none", -1)
  /\ lastArgs = NoArgs
  /\ lastTarget = RunName(0, 0)
  /\ pre = [root |-> FALSE, dirs |-> {}, files |-> [d \in DirNames |-> <<>>]]
  /\ created = {}

DriverQuiet ==
  /\ dirImages = {}
  /\ outExists = FALSE
  /\ disk = <<>>
  /\ buf = <<>>
  /\ pc = "idle"
  /\ image_files = <<>>
  /\ done_images = {}
  /\ idx = 1
  /\ response = Answer("", "")
  /\ calls = <<>>
  /\ failed = {}
  /\ nflushed = 0
  /\ runs = 0
  /\ startExists = FALSE
  /\ startDisk = <<>>
  /\ crashAt = "none"
  /\ prev = NoPrev

vars == <<driverVars, builderVars>>

\* the Driver
Init == DriverInit /\ BuilderQuiet
Next ==
  \/ DriverStart
  \/ DriverSkip
  \/ DriverInfer
  \/ DriverWrite
  \/ DriverFlush
  \/ DriverEndLoop
  \/ DriverNormalize
  \/ DriverKill
  \/ AddImage
Spec == Init /\ [][Next]_vars

\* the Builder
BuilderSpecInit == DriverQuiet /\ BuilderInit
BuilderSpecNext ==
  \/ BuilderMain
  \/ Tick
BuilderSpec == BuilderSpecInit /\ [][BuilderSpecNext]_vars

\* ---- Driver properties -----------------------------------------------
IsPrefix(s, t) == Len(s) <= Len(t) /\ SubSeq(t, 1, Len(s)) = s

\* the file is one JSON array holding one object per name of S and no other
OneRecordPerImage(content, S) ==
  LET r == json_load(content)
  IN /\ r.ok
     /\ r.val.t = "arr"
     /\ Len(r.val.items) = Cardinality(S)
     /\ \A i \in DOMAIN r.val.items :
          /\ r.val.items[i].t = "obj"
          /\ HasKey(r.val.items[i], "imagename")
          /\ HasKey(r.val.items[i], "answer")
     /\ {Get(r.val.items[i], "imagename") : i \in DOMAIN r.val.items} = S

\* the image names that have a record somewhere in the file
RecordNames(content) ==
  {content[i].v : i \in {j \in DOMAIN content :
                           content[j].tok = "kv" /\ content[j].k = "imagename"}}

\* what this invocation has put on disk after the content it started from
Appended == SubSeq(disk, Len(startDisk) + 1, Len(disk))

\* the i-th appended line is the complete record of the i-th inference call
RecordLineOf(line, i) ==
  LET r == json_load(line)
  IN /\ line[Len(line)] = NL
     /\ Len(readlines(line, <<>>)) = 1
     /\ r.ok
     /\ r.val.t = "obj"
     /\ HasKey(r.val, "imagename")
     /\ Get(r.val, "imagename") = calls[i]
     /\ HasKey(r.val, "answer")
     /\ (Get(r.val, "answer").prefix = "Error: ") <=> (calls[i] \in failed)

Ended == pc \in {"done", "crashed"}

\* C1: one uninterrupted invocation on an output path that did not exist
\* lists exactly the image files of the directory, does not raise, and ends
\* with the file being one JSON array with exactly one object per discovered
\* image name (the empty array for an empty directory), whether or not
\* inference calls failed.
C1_FreshRunOneRecordPerImage ==
  /\ (pc \in Running => image_files = SortedSeq(dirImages))
  /\ (runs = 1 /\ ~startExists /\ Ended) =>
       /\ pc = "done"
       /\ OneRecordPerImage(disk, Range(image_files))
       /\ (image_files = <<>> => disk = <<LB, RB>>)

C1_Witness ==
  /\ runs = 1 /\ ~startExists /\ pc = "done"
  /\ Len(image_files) >= 2
  /\ failed # {} /\ failed # Range(image_files)

\* C2: when the previous invocation started on a fresh output path and was
\* killed after k < N records were flushed, the next invocation on the same
\* directory, if not interrupted, invokes inference for N-k images only and
\* ends with a normalized file of exactly N entries without duplicates.
C2_Resumable ==
  (/\ runs >= 2 /\ Ended
   /\ prev.end = "killed" /\ ~prev.existed
   /\ prev.dir = Range(image_files)
   /\ prev.flushed < Len(image_files)) =>
     /\ pc = "done"
     /\ Len(calls) = Len(image_files) - prev.flushed
     /\ OneRecordPerImage(disk, Range(image_files))

\* C3: when the previous invocation completed and no image was added, the
\* next invocation completes, invokes inference for no image and leaves the
\* file as it was.
C3_Idempotent ==
  (/\ runs >= 2 /\ Ended
   /\ prev.end = "done"
   /\ prev.dir = Range(image_files)) =>
     /\ pc = "done"
     /\ calls = <<>>
     /\ disk = startDisk

\* C4: no invocation passes to inference an image that had a record in the
\* output file when the invocation started, and a completed invocation leaves
\* exactly one record per image file of the directory.
C4_NoReinferenceOneRecord ==
  /\ Range(calls) \cap RecordNames(startDisk) = {}
  /\ (pc = "done" => OneRecordPerImage(disk, Range(image_files)))

\* C5: during the loop, whenever inference is about to be invoked for the
\* next image, and whenever the process is killed, the file on disk is the
\* content the invocation started from followed by one complete,
\* newline-terminated JSON record line per finished image, in order, and
\* nothing is left in the buffer; a step of the loop only appends to the file.
C5_DurabilityInv ==
  /\ (pc \in {"loop", "write", "flush", "normalize", "killed"} =>
        /\ IsPrefix(startDisk, disk)
        /\ LET lines == readlines(Appended, <<>>)
           IN /\ Len(lines) = nflushed
              /\ \A i \in DOMAIN lines : RecordLineOf(lines[i], i))
  /\ (pc \in {"loop", "normalize"} => nflushed = Len(calls) /\ buf = <<>>)
  /\ (pc \in {"write", "flush"} => nflushed = Len(calls) - 1)

C5_OnlyAppends == pc \in {"loop", "write", "flush"} => IsPrefix(disk, disk')

C5_Durability == [](C5_DurabilityInv) /\ [][C5_OnlyAppends]_vars

C5_Witness ==
  /\ pc = "killed" /\ nflushed >= 2 /\ Len(calls) > nflushed
  /\ startDisk # <<>>

\* C6: an inference call that raises gives its image a record whose answer
\* starts with "Error: "; the loop never raises, and when it ends every image
\* that was not in the done set has been passed to inference, in order, and
\* has its own record line, whichever calls failed.
C6_FailureIsolation ==
  /\ (pc = "crashed" => crashAt \in {"load", "normalize"})
  /\ failed \subseteq Range(calls)
  /\ (pc = "normalize" =>
        /\ calls = SelectSeq(image_files, LAMBDA n : n \notin done_images)
        /\ LET lines == readlines(Appended, <<>>)
           IN /\ Len(lines) = Len(calls)
              /\ \A i \in DOMAIN lines : RecordLineOf(lines[i], i))

C6_Witness ==
  /\ pc = "normalize"
  /\ \E i, j \in DOMAIN calls :
       i < j /\ calls[i] \in failed /\ calls[j] \notin failed

\* the content is not a JSON array of objects
NotArrayOfObjects(content) ==
  LET r == json_load(content)
  IN \/ ~r.ok
     \/ r.val.t # "arr"
     \/ \E i \in DOMAIN r.val.items : r.val.items[i].t # "obj"

\* C10: when the existing output file is not a JSON array of objects, the
\* invocation does not raise, its done set is empty and, once its loop has
\* ended, inference has been invoked for every discovered image.
C10_CorruptFileIsNoProgress ==
  (runs >= 1 /\ startExists /\ NotArrayOfObjects(startDisk)) =>
     /\ pc # "crashed"
     /\ done_images = {}
     /\ (pc \in {"normalize", "done"} => calls = image_files)

\* ---- Builder properties ----------------------------------------------
\* the last call had an existing input file and an images dir with a second
\* path segment, so it got as far as creating the run directory
ReachedMkdir == bcalls >= 1 /\ lastArgs.input_exists /\ lastArgs.segs >= 2

RowsWellFormed(rows) ==
  \A i \in DOMAIN rows : rows[i].imagename = "str" /\ rows[i].answer # "missing"

\* C7: with an existing input of rows that each have a string imagename and
\* an answer, and a run name that does not exist yet, the Builder completes
\* and the new run directory holds metrics.json, config.yaml and
\* predictions.json, written in that order.
C7_BuilderWritesThreeFiles ==
  (ReachedMkdir /\ RowsWellFormed(lastArgs.rows) /\ lastTarget \notin pre.dirs)
    => /\ exitStatus.kind = "ok"
       /\ lastTarget \in dirs
       /\ files[lastTarget] = ThreeFiles

\* C8: with a row that lacks a key or has a non-string imagename, the Builder
\* aborts with a validation error naming the first such row, and out_root
\* holds nothing it did not hold before, not even the run directory.
C8_InvalidRowLeavesNothing ==
  (ReachedMkdir /\ ~RowsWellFormed(lastArgs.rows) /\ lastTarget \notin pre.dirs)
    => /\ exitStatus.kind = "ValueError"
       /\ exitStatus.row = build_predictions(lastArgs.rows).row
       /\ dirs = pre.dirs
       /\ files = pre.files

\* C9: a Builder call whose run directory already exists does not succeed and,
\* when it gets as far as directory creation, fails there with
\* FileExistsError; no Builder call changes a run directory that existed
\* when it started, so a second call with the same explicit run_name leaves
\* the first call's directory as it was.
C9_DirectoryExclusive ==
  /\ \A d \in pre.dirs : d \in dirs /\ files[d] = pre.files[d]
  /\ (bcalls >= 1 /\ lastTarget \in pre.dirs) =>
       /\ exitStatus.kind # "ok"
       /\ dirs = pre.dirs
       /\ files = pre.files
       /\ (ReachedMkdir => exitStatus.kind = "FileExistsError")

C9_Witness ==
  /\ bcalls >= 2
  /\ lastArgs.run_name # 0
  /\ lastTarget \in created
  /\ exitStatus.kind = "FileExistsError"

====
